---- MODULE Spec2Model ----
(***************************************************************************)
(* YNAB-Wrapped: the year-over-year expense comparison of wrapped/cli.py.  *)
(*                                                                         *)
(* Numbers.  Python floats are modelled as exact rationals [num, den] in   *)
(* lowest terms with den > 0; the totals of the expense rows are integers. *)
(* A value formatted with ",.2f" is modelled as the integer number of      *)
(* hundredths it shows (round-half-even, as Python's float formatting).    *)
(*                                                                         *)
(* Strings.  TLA+ strings are ASCII: the emoji that ends four of the       *)
(* category names of cli.py is written by its code point, "U+1F3E8".       *)
(***************************************************************************)
EXTENDS Integers, Sequences, FiniteSets, TLC

VARIABLES
    disk,           \* ../data/expense-reports/<y>-expense-report.csv, per year
    pc,             \* position of run() in its body
    initial_year,   \* run: first prompt's answer
    compared_year,  \* run: second prompt's answer
    init,           \* run: rows of the starting year   (init.to_dict(orient="records"))
    comp,           \* run: rows of the comparison year (comp.to_dict(orient="records"))
    report,         \* run: the value gather_data returned
    response,       \* run: the confirmation's answer
    report_txt,     \* the file report.txt
    stdout,         \* what print() wrote, in order
    exc,            \* the uncaught exception that ended the run
    current,        \* percent_diff called on its own: first argument
    previous,       \* percent_diff called on its own: second argument
    ret             \* percent_diff called on its own: returned value

vars == <<disk, pc, initial_year, compared_year, init, comp, report, response,
          report_txt, stdout, exc, current, previous, ret>>

runVars == <<disk, pc, initial_year, compared_year, init, comp, report, response,
             report_txt, stdout, exc>>

pdVars == <<current, previous, ret>>

(***************************************************************************)
(* Bounds of the model.                                                    *)
(***************************************************************************)
\* totals drawn for the rows of the varied category: -MaxTotal..MaxTotal
MaxTotal == 2
\* at most MaxDup rows of one category in one expense report
MaxDup == 2
\* arguments of a direct call of percent_diff: -MaxVal..MaxVal
MaxVal == 6

(***************************************************************************)
(* Arithmetic                                                              *)
(***************************************************************************)
Abs(x) == IF x < 0 THEN -x ELSE x

RECURSIVE GCD(_, _)
GCD(a, b) == IF b = 0 THEN a ELSE GCD(b, a % b)

\* the rational n/d (d # 0), in lowest terms, denominator positive
Rat(n, d) ==
    LET g == GCD(Abs(n), Abs(d))
        s == IF d < 0 THEN -1 ELSE 1
    IN  [num |-> (s * n) \div g, den |-> (s * d) \div g]

RatOfInt(x) == [num |-> x, den |-> 1]

RatMul(r, k) == Rat(r.num * k, r.den)

\* the outcome of an expression: a value, or a raised exception
Returns(v) == [raised |-> FALSE, value |-> v]
Raises(e) == [raised |-> TRUE, exception |-> e]

\* Python's a / b: raises ZeroDivisionError when b == 0
TrueDiv(a, b) == IF b = 0 THEN Raises("ZeroDivisionError") ELSE Returns(Rat(a, b))

\* format(x, ",.2f"): the hundredths shown, rounded half to even
Format2f(r) ==
    LET n  == Abs(r.num) * 100
        q  == n \div r.den
        rm == n % r.den
        m  == IF 2 * rm > r.den \/ (2 * rm = r.den /\ q % 2 = 1) THEN q + 1 ELSE q
    IN  IF r.num < 0 THEN -m ELSE m

(***************************************************************************)
(* percent_diff                                                            *)
(***************************************************************************)
\* a slip: the zero test placed before the equality test
percent_diffZeroFirst(cur, prev) ==
    IF prev = 0 THEN RatOfInt(0)
    ELSE IF cur = prev THEN RatOfInt(100)
    ELSE RatMul(TrueDiv(Abs(cur - prev), prev).value, 100)

\* a slip: the except branch returns the equal-values constant
percent_diffExcept100(cur, prev) ==
    IF cur = prev THEN RatOfInt(100)
    ELSE LET q == TrueDiv(Abs(cur - prev), prev)
         IN  IF q.raised THEN RatOfInt(100) ELSE RatMul(q.value, 100)

percent_diff(cur, prev) ==
    IF cur = prev THEN RatOfInt(100)
    ELSE LET q == TrueDiv(Abs(cur - prev), prev)
         IN  IF q.raised THEN RatOfInt(0) ELSE RatMul(q.value, 100)

(***************************************************************************)
(* gather_data                                                             *)
(***************************************************************************)
\* category names as the glossary of the specification spells them
GlossaryCategorySet ==
    << "Total Income", "Immediate Obligations", "True Expenses", "Groceries",
       "Medical", "Auto Maintenance", "Subscriptions",
       "Quality of Life Goals", "Vacation", "Gifts", "Just for Fun" >>

\* the categories the report compares, in the order of the loop
CATEGORIES ==
    << "Total Income",
       "Immediate Obligations",
       "True Expenses",
       "Groceries",
       "Medical U+1F3E8",
       "Auto Maintenance U+1F697",
       "Subscriptions",
       "Quality of Life Goals",
       "Vacation U+1F3DD",
       "Gifts U+1F381",
       "Just for Fun" >>

\* [r["Total"] for r in rows if r["Category"] == category]
RECURSIVE SelectTotals(_, _)
SelectTotals(rows, category) ==
    IF rows = <<>> THEN <<>>
    ELSE (IF Head(rows).Category = category THEN <<Head(rows).Total>> ELSE <<>>)
         \o SelectTotals(Tail(rows), category)

\* [r["Total"] for k in [initial, compared] for r in k if r["Category"] == category]
MatchingTotals(initial, compared, category) ==
    SelectTotals(initial, category) \o SelectTotals(compared, category)

\* init_total, comp_total = [...]: ValueError unless the list holds two values
Unpack2(totals) ==
    IF Len(totals) = 2 THEN Returns(totals) ELSE Raises("ValueError")

\* the first line of the report
Header(init_year, comp_year) ==
    [kind |-> "header", init_year |-> init_year, comp_year |-> comp_year]

\* a slip: the marker set when spending did not grow (<= instead of <)
SectionMarkerLeq(category, init_year, comp_year, t1, t2) ==
    LET init_total == Abs(t1)
        comp_total == Abs(t2)
        total_diff == comp_total - init_total
    IN  [kind         |-> "section",
         category     |-> category,
         marker       |-> total_diff <= 0,
         init_year    |-> init_year,
         init_expense |-> Format2f(RatOfInt(init_total)),
         comp_year    |-> comp_year,
         comp_expense |-> Format2f(RatOfInt(comp_total)),
         difference   |-> Format2f(RatOfInt(comp_total - init_total)),
         percent      |-> Format2f(percent_diff(init_total, comp_total))]

\* the three blocks gather_data appends for one category, from the two totals
\* unpacked for it
Section(category, init_year, comp_year, t1, t2) ==
    LET init_total == Abs(t1)
        comp_total == Abs(t2)
        total_diff == comp_total - init_total
    IN  [kind         |-> "section",
         category     |-> category,
         marker       |-> total_diff < 0,
         init_year    |-> init_year,
         init_expense |-> Format2f(RatOfInt(init_total)),
         comp_year    |-> comp_year,
         comp_expense |-> Format2f(RatOfInt(comp_total)),
         difference   |-> Format2f(RatOfInt(comp_total - init_total)),
         percent      |-> Format2f(percent_diff(init_total, comp_total))]

\* the loop of gather_data over the categories left, rep the report so far
RECURSIVE ForCategory(_, _, _, _, _, _)
ForCategory(cats, initial, compared, init_year, comp_year, rep) ==
    IF cats = <<>> THEN Returns(rep)
    ELSE LET category == Head(cats)
             unpacked == Unpack2(MatchingTotals(initial, compared, category))
         IN  IF unpacked.raised THEN unpacked
             ELSE ForCategory(Tail(cats), initial, compared, init_year, comp_year,
                      Append(rep, Section(category, init_year, comp_year,
                                          unpacked.value[1], unpacked.value[2])))

\* the categories of the list in the order their rows have in the input
RECURSIVE ListedCategoriesOf(_)
ListedCategoriesOf(rows) ==
    IF rows = <<>> THEN <<>>
    ELSE (IF \E i \in DOMAIN CATEGORIES : CATEGORIES[i] = Head(rows).Category
          THEN <<Head(rows).Category>> ELSE <<>>)
         \o ListedCategoriesOf(Tail(rows))

\* a slip: the loop runs over the rows of the starting year, not over the list
gather_dataRowOrder(initial, compared, init_year, comp_year) ==
    ForCategory(ListedCategoriesOf(initial), initial, compared, init_year, comp_year,
                <<Header(init_year, comp_year)>>)

gather_data(initial, compared, init_year, comp_year) ==
    ForCategory(CATEGORIES, initial, compared, init_year, comp_year,
                <<Header(init_year, comp_year)>>)

(***************************************************************************)
(* Inputs: the expense reports on disk                                     *)
(***************************************************************************)
\* the years that have an expense report on disk
Years == {"2022", "2023"}

\* what the user may answer to a year prompt: a year on disk, or anything else
Answers == Years \cup {"YYYY"}

Totals == (-MaxTotal)..MaxTotal

\* category names as a budget export spells them, emoji included
ExportedNames ==
    << "Total Income", "Immediate Obligations", "True Expenses", "Groceries",
       "Medical U+1F3E8", "Auto Maintenance U+1F697", "Subscriptions",
       "Quality of Life Goals", "Vacation U+1F3DD", "Gifts U+1F381", "Just for Fun" >>

Layouts == {"listed", "reversed", "glossary"}

Row(category, total) == [Category |-> category, Total |-> total]

RECURSIVE Reverse(_)
Reverse(s) == IF s = <<>> THEN <<>> ELSE Append(Reverse(Tail(s)), Head(s))

\* the total of the one row of category i in the report of year 1 or 2, for the
\* categories that are not varied: income positive, expenses negative, growing
\* in year 1 and shrinking in year 2 along the list
BaseTotal(year, i) ==
    LET m == IF year = 1 THEN i ELSE Len(ExportedNames) + 1 - i
    IN  IF i = 1 THEN m ELSE -m

\* An expense report: one row per category, except that category v has n rows,
\* their totals alternating between t1 and t2; and one row of a category group
\* the comparison does not list.
RECURSIVE RowsFrom(_, _, _, _, _, _, _)
RowsFrom(i, names, year, v, n, t1, t2) ==
    IF i > Len(names) THEN <<>>
    ELSE (IF i = v
          THEN [k \in 1..n |-> Row(names[i], IF k % 2 = 1 THEN t1 ELSE t2)]
          ELSE <<Row(names[i], BaseTotal(year, i))>>)
         \o RowsFrom(i + 1, names, year, v, n, t1, t2)

ExpenseReport(year, v, n, t1, t2, layout) ==
    LET names == IF layout = "glossary" THEN GlossaryCategorySet ELSE ExportedNames
        rows  == <<Row("Hidden Categories", -1)>>
                 \o RowsFrom(1, names, year, v, n, t1, t2)
    IN  IF layout = "reversed" THEN Reverse(rows) ELSE rows

Disks ==
    { [y \in Years |->
          IF y = "2022" THEN ExpenseReport(1, v, n1, t1, t2, layout)
                        ELSE ExpenseReport(2, v, n2, t2, t1, layout)] :
        v \in DOMAIN ExportedNames, n1 \in 0..MaxDup, n2 \in 0..MaxDup,
        t1 \in Totals, t2 \in Totals, layout \in Layouts }

(***************************************************************************)
(* run                                                                     *)
(***************************************************************************)
Init ==
    /\ disk \in Disks
    /\ pc = "start"
    /\ initial_year = ""
    /\ compared_year = ""
    /\ init = <<>>
    /\ comp = <<>>
    /\ report = <<>>
    /\ response = FALSE
    /\ report_txt = <<>>
    /\ stdout = <<>>
    /\ exc = ""
    /\ current = 0
    /\ previous = 0
    /\ ret = <<>>

\* initial_year = Message("Enter starting year (YYYY)").prompt()
PromptInitialYear ==
    /\ pc = "start"
    /\ \E y \in Answers : initial_year' = y
    /\ pc' = "initial_year"
    /\ UNCHANGED <<disk, compared_year, init, comp, report, response, report_txt,
                   stdout, exc, pdVars>>

\* compared_year = Message("Enter comparison year (YYYY)").prompt()
PromptComparedYear ==
    /\ pc = "initial_year"
    /\ \E y \in Answers : compared_year' = y
    /\ pc' = "compared_year"
    /\ UNCHANGED <<disk, initial_year, init, comp, report, response, report_txt,
                   stdout, exc, pdVars>>

\* init, comp = [pd.read_csv(...) for y in [initial_year, compared_year]]
ReadCsv ==
    /\ pc = "compared_year"
    /\ IF initial_year \in DOMAIN disk /\ compared_year \in DOMAIN disk
       THEN /\ init' = disk[initial_year]
            /\ comp' = disk[compared_year]
            /\ pc' = "loaded"
            /\ exc' = exc
       ELSE /\ pc' = "crashed"
            /\ exc' = "FileNotFoundError"
            /\ UNCHANGED <<init, comp>>
    /\ UNCHANGED <<disk, initial_year, compared_year, report, response, report_txt,
                   stdout, pdVars>>

\* report = gather_data(init.to_dict(...), comp.to_dict(...), initial_year, compared_year)
GatherData ==
    /\ pc = "loaded"
    /\ LET r == gather_data(init, comp, initial_year, compared_year)
       IN  IF r.raised
           THEN /\ pc' = "crashed"
                /\ exc' = r.exception
                /\ report' = report
           ELSE /\ pc' = "generated"
                /\ report' = r.value
                /\ exc' = exc
    /\ UNCHANGED <<disk, initial_year, compared_year, init, comp, response,
                   report_txt, stdout, pdVars>>

\* response = Message("Report Generated, Save (y) or Print ...").confirmation()
Confirmation ==
    /\ pc = "generated"
    /\ \E answer \in BOOLEAN : response' = answer
    /\ pc' = "confirmed"
    /\ UNCHANGED <<disk, initial_year, compared_year, init, comp, report,
                   report_txt, stdout, exc, pdVars>>

\* a slip: the print left outside the else
PrintReportAlways ==
    /\ pc = "confirmed"
    /\ stdout' = Append(stdout, report)
    /\ pc' = "done"
    /\ UNCHANGED <<disk, initial_year, compared_year, init, comp, report, response,
                   report_txt, exc, pdVars>>

\* if response: with open("report.txt", "w") as f: f.write(report)
SaveReport ==
    /\ pc = "confirmed"
    /\ response
    /\ report_txt' = <<report>>
    /\ pc' = "done"
    /\ UNCHANGED <<disk, initial_year, compared_year, init, comp, report, response,
                   stdout, exc, pdVars>>

\* else: print(report)
PrintReport ==
    /\ pc = "confirmed"
    /\ ~response
    /\ stdout' = Append(stdout, report)
    /\ pc' = "done"
    /\ UNCHANGED <<disk, initial_year, compared_year, init, comp, report, response,
                   report_txt, exc, pdVars>>

Next ==
    \/ PromptInitialYear
    \/ PromptComparedYear
    \/ ReadCsv
    \/ GatherData
    \/ Confirmation
    \/ SaveReport
    \/ PrintReport

Spec == Init /\ [][Next]_vars

(***************************************************************************)
(* percent_diff called on its own, on any pair of integers of the bound    *)
(***************************************************************************)
InitPD ==
    /\ disk = [y \in Years |-> <<>>]
    /\ pc = "start"
    /\ initial_year = ""
    /\ compared_year = ""
    /\ init = <<>>
    /\ comp = <<>>
    /\ report = <<>>
    /\ response = FALSE
    /\ report_txt = <<>>
    /\ stdout = <<>>
    /\ exc = ""
    /\ current \in (-MaxVal)..MaxVal
    /\ previous \in (-MaxVal)..MaxVal
    /\ ret = <<>>

CallPercentDiff ==
    /\ ret = <<>>
    /\ ret' = <<percent_diff(current, previous)>>
    /\ UNCHANGED <<runVars, current, previous>>

NextPD == CallPercentDiff

SpecPD == InitPD /\ [][NextPD]_vars

(***************************************************************************)
(* Vocabulary of the properties                                            *)
(***************************************************************************)
\* number of rows of a category in a row sequence
Count(rows, category) == Len(SelectTotals(rows, category))

\* the category has exactly one row in each of the two loaded row sequences
UniqueInBoth(category) == Count(init, category) = 1 /\ Count(comp, category) = 1

\* the total of the one row of the category
TotalIn(rows, category) == SelectTotals(rows, category)[1]

\* run has called gather_data: it returned a report, or raised
GatherDataRan ==
    \/ pc \in {"generated", "confirmed", "done"}
    \/ pc = "crashed" /\ exc = "ValueError"

\* gather_data returned a report
ReportReturned == pc \in {"generated", "confirmed", "done"}

\* the rational r is n / d  (d # 0)
RatIs(r, n, d) == r.num * d = n * r.den

(***************************************************************************)
(* Properties of percent_diff, under SpecPD                                *)
(***************************************************************************)
\* C1: percent_diff(current, previous) is 100.0 when current == previous (also
\* for 0, 0); otherwise 0 when previous == 0; otherwise
\* abs(current - previous) / previous * 100.
C1_ThreeBranchReference ==
    ret # <<>> =>
        IF current = previous THEN RatIs(ret[1], 100, 1)
        ELSE IF previous = 0 THEN RatIs(ret[1], 0, 1)
        ELSE RatIs(ret[1], Abs(current - previous) * 100, previous)

\* percent_diff(0, 0) has returned, and returned 100
C1_Witness ==
    /\ ret # <<>>
    /\ current = 0
    /\ previous = 0
    /\ ret[1] = RatOfInt(100)

\* C4, as claimed: percent_diff(0, y) returns 0 for every y # 0.
C4_ZeroCurrentReturnsZero ==
    (ret # <<>> /\ current = 0 /\ previous # 0) => RatIs(ret[1], 0, 1)

\* C4, amended: percent_diff(x, 0) returns 0 for every x # 0 (the second
\* argument, previous, is the divisor whose zero is suppressed).
C4_ZeroPreviousReturnsZero ==
    (ret # <<>> /\ previous = 0 /\ current # 0) => RatIs(ret[1], 0, 1)

\* percent_diff(x, 0) has returned for some x # 0
C4_Witness ==
    /\ ret # <<>>
    /\ previous = 0
    /\ current # 0
    /\ ret[1].num = 0

\* C5, as claimed: the value percent_diff returns is never negative, negative
\* values of previous included.
C5_ResultNonNegative ==
    ret # <<>> => ret[1].num >= 0

(***************************************************************************)
(* Properties of gather_data and run, under Spec                           *)
(***************************************************************************)
\* C2, as claimed: for a category with one row in each sequence and unequal
\* non-zero totals, the percent shown is abs(compared - initial) / initial * 100
\* of the absolute totals.
C2_PercentRelativeToInitial ==
    ReportReturned =>
        \A i \in DOMAIN CATEGORIES :
            LET c == CATEGORIES[i]
            IN  UniqueInBoth(c) =>
                    LET it == Abs(TotalIn(init, c))
                        ct == Abs(TotalIn(comp, c))
                    IN  (it # ct /\ it # 0 /\ ct # 0) =>
                            report[i + 1].percent
                                = Format2f(Rat(Abs(ct - it) * 100, it))

\* C3, as claimed: gather_data raises, and returns no report, whenever some
\* category of the list has zero rows or more than one row in the initial rows
\* or in the compared rows.
C3_FailsOnAnyNonUniqueMatch ==
    (/\ GatherDataRan
     /\ \E i \in DOMAIN CATEGORIES :
            Count(init, CATEGORIES[i]) # 1 \/ Count(comp, CATEGORIES[i]) # 1)
    => (pc = "crashed" /\ report = <<>>)

\* C6: a category's section carries the success marker exactly when
\* abs(compared total) - abs(initial total) < 0.
C6_MarkerIffSpendingDecreased ==
    ReportReturned =>
        \A i \in DOMAIN CATEGORIES :
            LET c == CATEGORIES[i]
            IN  UniqueInBoth(c) =>
                    (report[i + 1].marker
                        <=> Abs(TotalIn(comp, c)) - Abs(TotalIn(init, c)) < 0)

\* a report with a marked section, and an unmarked section of equal totals
C6_Witness ==
    /\ ReportReturned
    /\ \E i \in DOMAIN CATEGORIES :
            /\ UniqueInBoth(CATEGORIES[i])
            /\ TotalIn(init, CATEGORIES[i]) < 0
            /\ Abs(TotalIn(comp, CATEGORIES[i])) < Abs(TotalIn(init, CATEGORIES[i]))
            /\ report[i + 1].marker
    /\ \E j \in DOMAIN CATEGORIES :
            /\ UniqueInBoth(CATEGORIES[j])
            /\ Abs(TotalIn(comp, CATEGORIES[j])) = Abs(TotalIn(init, CATEGORIES[j]))
            /\ ~report[j + 1].marker

\* C7, as claimed: rows keyed by the glossary's names, one per name in each
\* sequence, are all found: eleven sections, no lookup failure.
C7_GlossaryNamesAreFound ==
    (/\ GatherDataRan
     /\ \A i \in DOMAIN GlossaryCategorySet :
            UniqueInBoth(GlossaryCategorySet[i]))
    => (pc # "crashed" /\ Len(report) = 1 + 11)

\* C7, amended: rows keyed by the names of the code's list (four of which end
\* in an emoji the glossary drops), one per name in each sequence, are all
\* found: eleven sections, no lookup failure.
C7_ExportedNamesAreFound ==
    (/\ GatherDataRan
     /\ \A i \in DOMAIN ExportedNames :
            UniqueInBoth(ExportedNames[i]))
    => (pc # "crashed" /\ Len(report) = 1 + 11)

\* a report returned from rows that hold each emoji-spelt name once
C7_Witness ==
    /\ pc = "generated"
    /\ \A i \in DOMAIN ExportedNames : UniqueInBoth(ExportedNames[i])
    /\ Count(init, "Medical U+1F3E8") = 1
    /\ Len(report) = 1 + 11

\* C8: a completed run has emitted the report to exactly one sink: report.txt
\* when the answer was yes, standard output when it was no.
C8_ExactlyOneSink ==
    pc = "done" =>
        /\ response => (report_txt = <<report>> /\ stdout = <<>>)
        /\ ~response => (stdout = <<report>> /\ report_txt = <<>>)

\* a run completed after the answer yes, the report in report.txt
C8_Witness ==
    /\ pc = "done"
    /\ response
    /\ report_txt = <<report>>
    /\ report # <<>>

\* C9, as claimed: when a category of the list has no row in one of the two
\* sequences, the run ends in the fatal error: no report, no confirmation, no
\* report.txt, nothing printed.
C9_MissingCategoryIsFatal ==
    (/\ GatherDataRan
     /\ \E i \in DOMAIN CATEGORIES :
            Count(init, CATEGORIES[i]) = 0 \/ Count(comp, CATEGORIES[i]) = 0)
    => (/\ pc = "crashed"
        /\ report = <<>>
        /\ report_txt = <<>>
        /\ stdout = <<>>)

\* C10: when every category of the list has one row in each sequence, the
\* report is the header of the two years, then one section per category in the
\* list's order, each showing the absolute values of its two totals.
C10_SectionsInListOrder ==
    (/\ GatherDataRan
     /\ \A i \in DOMAIN CATEGORIES : UniqueInBoth(CATEGORIES[i]))
    => (/\ pc # "crashed"
        /\ Len(report) = 1 + Len(CATEGORIES)
        /\ report[1] = Header(initial_year, compared_year)
        /\ \A i \in DOMAIN CATEGORIES :
               /\ report[i + 1].category = CATEGORIES[i]
               /\ report[i + 1].init_expense = 100 * Abs(TotalIn(init, CATEGORIES[i]))
               /\ report[i + 1].comp_expense = 100 * Abs(TotalIn(comp, CATEGORIES[i])))

\* a report returned from rows in reverse order that hold an unlisted category
C10_Witness ==
    /\ pc = "generated"
    /\ \A i \in DOMAIN CATEGORIES : UniqueInBoth(CATEGORIES[i])
    /\ init[1].Category = CATEGORIES[Len(CATEGORIES)]
    /\ \E k \in DOMAIN init :
           \A i \in DOMAIN CATEGORIES : init[k].Category # CATEGORIES[i]
    /\ initial_year # compared_year
    /\ Len(report) = 1 + Len(CATEGORIES)

====
